---- MODULE Spec2Model ----
(***************************************************************************)
(* A model of the email campaign of src/final.py: recipient extraction     *)
(* (EmailAutomation.read_csv_content), transport setup (setup_smtp), the   *)
(* retry-driven send loop (send_emails) and the campaign driver (main).    *)
(*                                                                         *)
(* Text is modelled as sequences of code points, so that strip(), lower(), *)
(* the substring test and the address pattern are computed character by    *)
(* character as the code computes them.                                    *)
(***************************************************************************)
EXTENDS Integers, Sequences, FiniteSets, TLC

(***************************************************************************)
(* Bounds of the model.                                                    *)
(***************************************************************************)
\* the largest number of data rows of an uploaded CSV
MaxRows == 2

(***************************************************************************)
(* Characters and text helpers.  A character is its Unicode code point and *)
(* a text is a sequence of code points.  The tables are those of the       *)
(* Unicode data Python 3.11 is built with (version 14.0).                  *)
(***************************************************************************)
\* the printable ASCII characters, U+0020 to U+007E in order (the double
\* quote, the backslash and the backtick by name)
AsciiPrintable ==
  <<" ", "!", "quote", "#", "$", "%", "&", "'", "(", ")", "*", "+", ",", "-", ".", "/",
    "0", "1", "2", "3", "4", "5", "6", "7", "8", "9", ":", ";", "<", "=", ">", "?",
    "@", "A", "B", "C", "D", "E", "F", "G", "H", "I", "J", "K", "L", "M", "N", "O",
    "P", "Q", "R", "S", "T", "U", "V", "W", "X", "Y", "Z", "[", "backslash", "]", "^", "_",
    "backtick", "a", "b", "c", "d", "e", "f", "g", "h", "i", "j", "k", "l", "m", "n", "o",
    "p", "q", "r", "s", "t", "u", "v", "w", "x", "y", "z", "{", "|", "}", "~">>
\* ord(c) of a printable ASCII character, and the text of a sequence of them
Code(c) == 31 + CHOOSE i \in 1..Len(AsciiPrintable) : AsciiPrintable[i] = c
Text(s) == [i \in 1..Len(s) |-> Code(s[i])]
Range(s) == { s[i] : i \in 1..Len(s) }
\* [a-zA-Z] and [0-9] of the address pattern
Letters == (65..90) \cup (97..122)
Digits == 48..57
Newline == 10
\* the characters str.strip() removes, those for which str.isspace() holds
Whitespace ==
  (9..13) \cup (28..32) \cup {133} \cup {160} \cup {5760} \cup (8192..8202)
  \cup (8232..8233) \cup {8239} \cup {8287} \cup {12288}
\* the value csv.DictReader gives a field the row is too short to hold: no
\* text at all
None == << -1 >>

\* the code points with a lowercase mapping of one character, as runs
\* << first, last, step, offset >>: every step-th code point from first to
\* last maps to itself plus offset
LowerRanges == {
  <<65, 90, 1, 32>>, <<192, 214, 1, 32>>, <<216, 222, 1, 32>>,
  <<256, 302, 2, 1>>, <<306, 310, 2, 1>>, <<313, 327, 2, 1>>,
  <<330, 374, 2, 1>>, <<376, 376, 1, -121>>, <<377, 381, 2, 1>>,
  <<385, 385, 1, 210>>, <<386, 388, 2, 1>>, <<390, 390, 1, 206>>,
  <<391, 391, 1, 1>>, <<393, 394, 1, 205>>, <<395, 395, 1, 1>>,
  <<398, 398, 1, 79>>, <<399, 399, 1, 202>>, <<400, 400, 1, 203>>,
  <<401, 401, 1, 1>>, <<403, 403, 1, 205>>, <<404, 404, 1, 207>>,
  <<406, 406, 1, 211>>, <<407, 407, 1, 209>>, <<408, 408, 1, 1>>,
  <<412, 412, 1, 211>>, <<413, 413, 1, 213>>, <<415, 415, 1, 214>>,
  <<416, 420, 2, 1>>, <<422, 422, 1, 218>>, <<423, 423, 1, 1>>,
  <<425, 425, 1, 218>>, <<428, 428, 1, 1>>, <<430, 430, 1, 218>>,
  <<431, 431, 1, 1>>, <<433, 434, 1, 217>>, <<435, 437, 2, 1>>,
  <<439, 439, 1, 219>>, <<440, 440, 1, 1>>, <<444, 444, 1, 1>>,
  <<452, 452, 1, 2>>, <<453, 453, 1, 1>>, <<455, 455, 1, 2>>,
  <<456, 456, 1, 1>>, <<458, 458, 1, 2>>, <<459, 475, 2, 1>>,
  <<478, 494, 2, 1>>, <<497, 497, 1, 2>>, <<498, 500, 2, 1>>,
  <<502, 502, 1, -97>>, <<503, 503, 1, -56>>, <<504, 542, 2, 1>>,
  <<544, 544, 1, -130>>, <<546, 562, 2, 1>>, <<570, 570, 1, 10795>>,
  <<571, 571, 1, 1>>, <<573, 573, 1, -163>>, <<574, 574, 1, 10792>>,
  <<577, 577, 1, 1>>, <<579, 579, 1, -195>>, <<580, 580, 1, 69>>,
  <<581, 581, 1, 71>>, <<582, 590, 2, 1>>, <<880, 882, 2, 1>>,
  <<886, 886, 1, 1>>, <<895, 895, 1, 116>>, <<902, 902, 1, 38>>,
  <<904, 906, 1, 37>>, <<908, 908, 1, 64>>, <<910, 911, 1, 63>>,
  <<913, 929, 1, 32>>, <<931, 939, 1, 32>>, <<975, 975, 1, 8>>,
  <<984, 1006, 2, 1>>, <<1012, 1012, 1, -60>>, <<1015, 1015, 1, 1>>,
  <<1017, 1017, 1, -7>>, <<1018, 1018, 1, 1>>, <<1021, 1023, 1, -130>>,
  <<1024, 1039, 1, 80>>, <<1040, 1071, 1, 32>>, <<1120, 1152, 2, 1>>,
  <<1162, 1214, 2, 1>>, <<1216, 1216, 1, 15>>, <<1217, 1229, 2, 1>>,
  <<1232, 1326, 2, 1>>, <<1329, 1366, 1, 48>>, <<4256, 4293, 1, 7264>>,
  <<4295, 4295, 1, 7264>>, <<4301, 4301, 1, 7264>>, <<5024, 5103, 1, 38864>>,
  <<5104, 5109, 1, 8>>, <<7312, 7354, 1, -3008>>, <<7357, 7359, 1, -3008>>,
  <<7680, 7828, 2, 1>>, <<7838, 7838, 1, -7615>>, <<7840, 7934, 2, 1>>,
  <<7944, 7951, 1, -8>>, <<7960, 7965, 1, -8>>, <<7976, 7983, 1, -8>>,
  <<7992, 7999, 1, -8>>, <<8008, 8013, 1, -8>>, <<8025, 8031, 2, -8>>,
  <<8040, 8047, 1, -8>>, <<8072, 8079, 1, -8>>, <<8088, 8095, 1, -8>>,
  <<8104, 8111, 1, -8>>, <<8120, 8121, 1, -8>>, <<8122, 8123, 1, -74>>,
  <<8124, 8124, 1, -9>>, <<8136, 8139, 1, -86>>, <<8140, 8140, 1, -9>>,
  <<8152, 8153, 1, -8>>, <<8154, 8155, 1, -100>>, <<8168, 8169, 1, -8>>,
  <<8170, 8171, 1, -112>>, <<8172, 8172, 1, -7>>, <<8184, 8185, 1, -128>>,
  <<8186, 8187, 1, -126>>, <<8188, 8188, 1, -9>>, <<8486, 8486, 1, -7517>>,
  <<8490, 8490, 1, -8383>>, <<8491, 8491, 1, -8262>>, <<8498, 8498, 1, 28>>,
  <<8544, 8559, 1, 16>>, <<8579, 8579, 1, 1>>, <<9398, 9423, 1, 26>>,
  <<11264, 11311, 1, 48>>, <<11360, 11360, 1, 1>>, <<11362, 11362, 1, -10743>>,
  <<11363, 11363, 1, -3814>>, <<11364, 11364, 1, -10727>>, <<11367, 11371, 2, 1>>,
  <<11373, 11373, 1, -10780>>, <<11374, 11374, 1, -10749>>, <<11375, 11375, 1, -10783>>,
  <<11376, 11376, 1, -10782>>, <<11378, 11378, 1, 1>>, <<11381, 11381, 1, 1>>,
  <<11390, 11391, 1, -10815>>, <<11392, 11490, 2, 1>>, <<11499, 11501, 2, 1>>,
  <<11506, 11506, 1, 1>>, <<42560, 42604, 2, 1>>, <<42624, 42650, 2, 1>>,
  <<42786, 42798, 2, 1>>, <<42802, 42862, 2, 1>>, <<42873, 42875, 2, 1>>,
  <<42877, 42877, 1, -35332>>, <<42878, 42886, 2, 1>>, <<42891, 42891, 1, 1>>,
  <<42893, 42893, 1, -42280>>, <<42896, 42898, 2, 1>>, <<42902, 42920, 2, 1>>,
  <<42922, 42922, 1, -42308>>, <<42923, 42923, 1, -42319>>, <<42924, 42924, 1, -42315>>,
  <<42925, 42925, 1, -42305>>, <<42926, 42926, 1, -42308>>, <<42928, 42928, 1, -42258>>,
  <<42929, 42929, 1, -42282>>, <<42930, 42930, 1, -42261>>, <<42931, 42931, 1, 928>>,
  <<42932, 42946, 2, 1>>, <<42948, 42948, 1, -48>>, <<42949, 42949, 1, -42307>>,
  <<42950, 42950, 1, -35384>>, <<42951, 42953, 2, 1>>, <<42960, 42960, 1, 1>>,
  <<42966, 42968, 2, 1>>, <<42997, 42997, 1, 1>>, <<65313, 65338, 1, 32>>,
  <<66560, 66599, 1, 40>>, <<66736, 66771, 1, 40>>, <<66928, 66938, 1, 39>>,
  <<66940, 66954, 1, 39>>, <<66956, 66962, 1, 39>>, <<66964, 66965, 1, 39>>,
  <<68736, 68786, 1, 64>>, <<71840, 71871, 1, 32>>, <<93760, 93791, 1, 32>>,
  <<125184, 125217, 1, 34>> }
\* U+0130, the one code point whose lowercase mapping has two characters
CapitalIWithDot == 304
SmallIThenDotAbove == << 105, 775 >>
\* U+03A3, whose lowercase depends on its place in the word
CapitalSigma == 931
SmallSigma == 963
SmallFinalSigma == 962
\* the case-ignorable code points, as intervals
CaseIgnorableRanges == {
  <<39, 39>>, <<46, 46>>, <<58, 58>>, <<94, 94>>, <<96, 96>>,
  <<168, 168>>, <<173, 173>>, <<175, 175>>, <<180, 180>>, <<183, 184>>,
  <<688, 879>>, <<884, 885>>, <<890, 890>>, <<900, 901>>, <<903, 903>>,
  <<1155, 1161>>, <<1369, 1369>>, <<1375, 1375>>, <<1425, 1469>>, <<1471, 1471>>,
  <<1473, 1474>>, <<1476, 1477>>, <<1479, 1479>>, <<1524, 1524>>, <<1536, 1541>>,
  <<1552, 1562>>, <<1564, 1564>>, <<1600, 1600>>, <<1611, 1631>>, <<1648, 1648>>,
  <<1750, 1757>>, <<1759, 1768>>, <<1770, 1773>>, <<1807, 1807>>, <<1809, 1809>>,
  <<1840, 1866>>, <<1958, 1968>>, <<2027, 2037>>, <<2042, 2042>>, <<2045, 2045>>,
  <<2070, 2093>>, <<2137, 2139>>, <<2184, 2184>>, <<2192, 2193>>, <<2200, 2207>>,
  <<2249, 2306>>, <<2362, 2362>>, <<2364, 2364>>, <<2369, 2376>>, <<2381, 2381>>,
  <<2385, 2391>>, <<2402, 2403>>, <<2417, 2417>>, <<2433, 2433>>, <<2492, 2492>>,
  <<2497, 2500>>, <<2509, 2509>>, <<2530, 2531>>, <<2558, 2558>>, <<2561, 2562>>,
  <<2620, 2620>>, <<2625, 2626>>, <<2631, 2632>>, <<2635, 2637>>, <<2641, 2641>>,
  <<2672, 2673>>, <<2677, 2677>>, <<2689, 2690>>, <<2748, 2748>>, <<2753, 2757>>,
  <<2759, 2760>>, <<2765, 2765>>, <<2786, 2787>>, <<2810, 2815>>, <<2817, 2817>>,
  <<2876, 2876>>, <<2879, 2879>>, <<2881, 2884>>, <<2893, 2893>>, <<2901, 2902>>,
  <<2914, 2915>>, <<2946, 2946>>, <<3008, 3008>>, <<3021, 3021>>, <<3072, 3072>>,
  <<3076, 3076>>, <<3132, 3132>>, <<3134, 3136>>, <<3142, 3144>>, <<3146, 3149>>,
  <<3157, 3158>>, <<3170, 3171>>, <<3201, 3201>>, <<3260, 3260>>, <<3263, 3263>>,
  <<3270, 3270>>, <<3276, 3277>>, <<3298, 3299>>, <<3328, 3329>>, <<3387, 3388>>,
  <<3393, 3396>>, <<3405, 3405>>, <<3426, 3427>>, <<3457, 3457>>, <<3530, 3530>>,
  <<3538, 3540>>, <<3542, 3542>>, <<3633, 3633>>, <<3636, 3642>>, <<3654, 3662>>,
  <<3761, 3761>>, <<3764, 3772>>, <<3782, 3782>>, <<3784, 3789>>, <<3864, 3865>>,
  <<3893, 3893>>, <<3895, 3895>>, <<3897, 3897>>, <<3953, 3966>>, <<3968, 3972>>,
  <<3974, 3975>>, <<3981, 3991>>, <<3993, 4028>>, <<4038, 4038>>, <<4141, 4144>>,
  <<4146, 4151>>, <<4153, 4154>>, <<4157, 4158>>, <<4184, 4185>>, <<4190, 4192>>,
  <<4209, 4212>>, <<4226, 4226>>, <<4229, 4230>>, <<4237, 4237>>, <<4253, 4253>>,
  <<4348, 4348>>, <<4957, 4959>>, <<5906, 5908>>, <<5938, 5939>>, <<5970, 5971>>,
  <<6002, 6003>>, <<6068, 6069>>, <<6071, 6077>>, <<6086, 6086>>, <<6089, 6099>>,
  <<6103, 6103>>, <<6109, 6109>>, <<6155, 6159>>, <<6211, 6211>>, <<6277, 6278>>,
  <<6313, 6313>>, <<6432, 6434>>, <<6439, 6440>>, <<6450, 6450>>, <<6457, 6459>>,
  <<6679, 6680>>, <<6683, 6683>>, <<6742, 6742>>, <<6744, 6750>>, <<6752, 6752>>,
  <<6754, 6754>>, <<6757, 6764>>, <<6771, 6780>>, <<6783, 6783>>, <<6823, 6823>>,
  <<6832, 6862>>, <<6912, 6915>>, <<6964, 6964>>, <<6966, 6970>>, <<6972, 6972>>,
  <<6978, 6978>>, <<7019, 7027>>, <<7040, 7041>>, <<7074, 7077>>, <<7080, 7081>>,
  <<7083, 7085>>, <<7142, 7142>>, <<7144, 7145>>, <<7149, 7149>>, <<7151, 7153>>,
  <<7212, 7219>>, <<7222, 7223>>, <<7288, 7293>>, <<7376, 7378>>, <<7380, 7392>>,
  <<7394, 7400>>, <<7405, 7405>>, <<7412, 7412>>, <<7416, 7417>>, <<7468, 7530>>,
  <<7544, 7544>>, <<7579, 7679>>, <<8125, 8125>>, <<8127, 8129>>, <<8141, 8143>>,
  <<8157, 8159>>, <<8173, 8175>>, <<8189, 8190>>, <<8203, 8207>>, <<8216, 8217>>,
  <<8228, 8228>>, <<8231, 8231>>, <<8234, 8238>>, <<8288, 8292>>, <<8294, 8303>>,
  <<8305, 8305>>, <<8319, 8319>>, <<8336, 8348>>, <<8400, 8432>>, <<11388, 11389>>,
  <<11503, 11505>>, <<11631, 11631>>, <<11647, 11647>>, <<11744, 11775>>, <<11823, 11823>>,
  <<12293, 12293>>, <<12330, 12333>>, <<12337, 12341>>, <<12347, 12347>>, <<12441, 12446>>,
  <<12540, 12542>>, <<40981, 40981>>, <<42232, 42237>>, <<42508, 42508>>, <<42607, 42610>>,
  <<42612, 42621>>, <<42623, 42623>>, <<42652, 42655>>, <<42736, 42737>>, <<42752, 42785>>,
  <<42864, 42864>>, <<42888, 42890>>, <<42994, 42996>>, <<43000, 43001>>, <<43010, 43010>>,
  <<43014, 43014>>, <<43019, 43019>>, <<43045, 43046>>, <<43052, 43052>>, <<43204, 43205>>,
  <<43232, 43249>>, <<43263, 43263>>, <<43302, 43309>>, <<43335, 43345>>, <<43392, 43394>>,
  <<43443, 43443>>, <<43446, 43449>>, <<43452, 43453>>, <<43471, 43471>>, <<43493, 43494>>,
  <<43561, 43566>>, <<43569, 43570>>, <<43573, 43574>>, <<43587, 43587>>, <<43596, 43596>>,
  <<43632, 43632>>, <<43644, 43644>>, <<43696, 43696>>, <<43698, 43700>>, <<43703, 43704>>,
  <<43710, 43711>>, <<43713, 43713>>, <<43741, 43741>>, <<43756, 43757>>, <<43763, 43764>>,
  <<43766, 43766>>, <<43867, 43871>>, <<43881, 43883>>, <<44005, 44005>>, <<44008, 44008>>,
  <<44013, 44013>>, <<64286, 64286>>, <<64434, 64450>>, <<65024, 65039>>, <<65043, 65043>>,
  <<65056, 65071>>, <<65106, 65106>>, <<65109, 65109>>, <<65279, 65279>>, <<65287, 65287>>,
  <<65294, 65294>>, <<65306, 65306>>, <<65342, 65342>>, <<65344, 65344>>, <<65392, 65392>>,
  <<65438, 65439>>, <<65507, 65507>>, <<65529, 65531>>, <<66045, 66045>>, <<66272, 66272>>,
  <<66422, 66426>>, <<67456, 67461>>, <<67463, 67504>>, <<67506, 67514>>, <<68097, 68099>>,
  <<68101, 68102>>, <<68108, 68111>>, <<68152, 68154>>, <<68159, 68159>>, <<68325, 68326>>,
  <<68900, 68903>>, <<69291, 69292>>, <<69446, 69456>>, <<69506, 69509>>, <<69633, 69633>>,
  <<69688, 69702>>, <<69744, 69744>>, <<69747, 69748>>, <<69759, 69761>>, <<69811, 69814>>,
  <<69817, 69818>>, <<69821, 69821>>, <<69826, 69826>>, <<69837, 69837>>, <<69888, 69890>>,
  <<69927, 69931>>, <<69933, 69940>>, <<70003, 70003>>, <<70016, 70017>>, <<70070, 70078>>,
  <<70089, 70092>>, <<70095, 70095>>, <<70191, 70193>>, <<70196, 70196>>, <<70198, 70199>>,
  <<70206, 70206>>, <<70367, 70367>>, <<70371, 70378>>, <<70400, 70401>>, <<70459, 70460>>,
  <<70464, 70464>>, <<70502, 70508>>, <<70512, 70516>>, <<70712, 70719>>, <<70722, 70724>>,
  <<70726, 70726>>, <<70750, 70750>>, <<70835, 70840>>, <<70842, 70842>>, <<70847, 70848>>,
  <<70850, 70851>>, <<71090, 71093>>, <<71100, 71101>>, <<71103, 71104>>, <<71132, 71133>>,
  <<71219, 71226>>, <<71229, 71229>>, <<71231, 71232>>, <<71339, 71339>>, <<71341, 71341>>,
  <<71344, 71349>>, <<71351, 71351>>, <<71453, 71455>>, <<71458, 71461>>, <<71463, 71467>>,
  <<71727, 71735>>, <<71737, 71738>>, <<71995, 71996>>, <<71998, 71998>>, <<72003, 72003>>,
  <<72148, 72151>>, <<72154, 72155>>, <<72160, 72160>>, <<72193, 72202>>, <<72243, 72248>>,
  <<72251, 72254>>, <<72263, 72263>>, <<72273, 72278>>, <<72281, 72283>>, <<72330, 72342>>,
  <<72344, 72345>>, <<72752, 72758>>, <<72760, 72765>>, <<72767, 72767>>, <<72850, 72871>>,
  <<72874, 72880>>, <<72882, 72883>>, <<72885, 72886>>, <<73009, 73014>>, <<73018, 73018>>,
  <<73020, 73021>>, <<73023, 73029>>, <<73031, 73031>>, <<73104, 73105>>, <<73109, 73109>>,
  <<73111, 73111>>, <<73459, 73460>>, <<78896, 78904>>, <<92912, 92916>>, <<92976, 92982>>,
  <<92992, 92995>>, <<94031, 94031>>, <<94095, 94111>>, <<94176, 94177>>, <<94179, 94180>>,
  <<110576, 110579>>, <<110581, 110587>>, <<110589, 110590>>, <<113821, 113822>>, <<113824, 113827>>,
  <<118528, 118573>>, <<118576, 118598>>, <<119143, 119145>>, <<119155, 119170>>, <<119173, 119179>>,
  <<119210, 119213>>, <<119362, 119364>>, <<121344, 121398>>, <<121403, 121452>>, <<121461, 121461>>,
  <<121476, 121476>>, <<121499, 121503>>, <<121505, 121519>>, <<122880, 122886>>, <<122888, 122904>>,
  <<122907, 122913>>, <<122915, 122916>>, <<122918, 122922>>, <<123184, 123197>>, <<123566, 123566>>,
  <<123628, 123631>>, <<125136, 125142>>, <<125252, 125259>>, <<127995, 127999>>, <<917505, 917505>>,
  <<917536, 917631>>, <<917760, 917999>> }
\* the cased code points that are not case-ignorable, as intervals
CasedRanges == {
  <<65, 90>>, <<97, 122>>, <<170, 170>>, <<181, 181>>, <<186, 186>>,
  <<192, 214>>, <<216, 246>>, <<248, 442>>, <<444, 447>>, <<452, 659>>,
  <<661, 687>>, <<880, 883>>, <<886, 887>>, <<891, 893>>, <<895, 895>>,
  <<902, 902>>, <<904, 906>>, <<908, 908>>, <<910, 929>>, <<931, 1013>>,
  <<1015, 1153>>, <<1162, 1327>>, <<1329, 1366>>, <<1376, 1416>>, <<4256, 4293>>,
  <<4295, 4295>>, <<4301, 4301>>, <<4304, 4346>>, <<4349, 4351>>, <<5024, 5109>>,
  <<5112, 5117>>, <<7296, 7304>>, <<7312, 7354>>, <<7357, 7359>>, <<7424, 7467>>,
  <<7531, 7543>>, <<7545, 7578>>, <<7680, 7957>>, <<7960, 7965>>, <<7968, 8005>>,
  <<8008, 8013>>, <<8016, 8023>>, <<8025, 8025>>, <<8027, 8027>>, <<8029, 8029>>,
  <<8031, 8061>>, <<8064, 8116>>, <<8118, 8124>>, <<8126, 8126>>, <<8130, 8132>>,
  <<8134, 8140>>, <<8144, 8147>>, <<8150, 8155>>, <<8160, 8172>>, <<8178, 8180>>,
  <<8182, 8188>>, <<8450, 8450>>, <<8455, 8455>>, <<8458, 8467>>, <<8469, 8469>>,
  <<8473, 8477>>, <<8484, 8484>>, <<8486, 8486>>, <<8488, 8488>>, <<8490, 8493>>,
  <<8495, 8500>>, <<8505, 8505>>, <<8508, 8511>>, <<8517, 8521>>, <<8526, 8526>>,
  <<8544, 8575>>, <<8579, 8580>>, <<9398, 9449>>, <<11264, 11387>>, <<11390, 11492>>,
  <<11499, 11502>>, <<11506, 11507>>, <<11520, 11557>>, <<11559, 11559>>, <<11565, 11565>>,
  <<42560, 42605>>, <<42624, 42651>>, <<42786, 42863>>, <<42865, 42887>>, <<42891, 42894>>,
  <<42896, 42954>>, <<42960, 42961>>, <<42963, 42963>>, <<42965, 42969>>, <<42997, 42998>>,
  <<43002, 43002>>, <<43824, 43866>>, <<43872, 43880>>, <<43888, 43967>>, <<64256, 64262>>,
  <<64275, 64279>>, <<65313, 65338>>, <<65345, 65370>>, <<66560, 66639>>, <<66736, 66771>>,
  <<66776, 66811>>, <<66928, 66938>>, <<66940, 66954>>, <<66956, 66962>>, <<66964, 66965>>,
  <<66967, 66977>>, <<66979, 66993>>, <<66995, 67001>>, <<67003, 67004>>, <<68736, 68786>>,
  <<68800, 68850>>, <<71840, 71903>>, <<93760, 93823>>, <<119808, 119892>>, <<119894, 119964>>,
  <<119966, 119967>>, <<119970, 119970>>, <<119973, 119974>>, <<119977, 119980>>, <<119982, 119993>>,
  <<119995, 119995>>, <<119997, 120003>>, <<120005, 120069>>, <<120071, 120074>>, <<120077, 120084>>,
  <<120086, 120092>>, <<120094, 120121>>, <<120123, 120126>>, <<120128, 120132>>, <<120134, 120134>>,
  <<120138, 120144>>, <<120146, 120485>>, <<120488, 120512>>, <<120514, 120538>>, <<120540, 120570>>,
  <<120572, 120596>>, <<120598, 120628>>, <<120630, 120654>>, <<120656, 120686>>, <<120688, 120712>>,
  <<120714, 120744>>, <<120746, 120770>>, <<120772, 120779>>, <<122624, 122633>>, <<122635, 122654>>,
  <<125184, 125251>>, <<127280, 127305>>, <<127312, 127337>>, <<127344, 127369>> }
CaseIgnorable(c) ==
  \E r \in CaseIgnorableRanges : r[1] <= c /\ c <= r[2]
Cased(c) == \E r \in CasedRanges : r[1] <= c /\ c <= r[2]
\* str.lower() of the one-character string c
LowerChar(c) ==
  IF c = CapitalIWithDot THEN SmallIThenDotAbove
  ELSE LET runs == { r \in LowerRanges :
                       r[1] <= c /\ c <= r[2] /\ (c - r[1]) % r[3] = 0 }
       IN  IF runs = {} THEN << c >>
           ELSE << c + (CHOOSE r \in runs : TRUE)[4] >>
\* the capital sigma at s[i] is final when a cased character comes before it
\* and none after it, case-ignorable characters being skipped on both sides
FinalSigma(s, i) ==
  /\ \E j \in 1..(i - 1) :
       /\ Cased(s[j])
       /\ ~CaseIgnorable(s[j])
       /\ \A k \in (j + 1)..(i - 1) : CaseIgnorable(s[k])
  /\ ~\E j \in (i + 1)..Len(s) :
        /\ Cased(s[j])
        /\ ~CaseIgnorable(s[j])
        /\ \A k \in (i + 1)..(j - 1) : CaseIgnorable(s[k])
RECURSIVE LowerFrom(_, _)
LowerFrom(s, i) ==
  IF i > Len(s) THEN <<>>
  ELSE (IF s[i] = CapitalSigma
          THEN << IF FinalSigma(s, i) THEN SmallFinalSigma ELSE SmallSigma >>
          ELSE LowerChar(s[i])) \o LowerFrom(s, i + 1)
\* str.lower()
lower(s) == LowerFrom(s, 1)
\* the test `sub in s` on strings
Contains(sub, s) ==
  \E i \in 0..(Len(s) - Len(sub)) : SubSeq(s, i + 1, i + Len(sub)) = sub
\* str.strip(): drop leading and trailing whitespace
RECURSIVE lstrip(_)
lstrip(s) == IF s # <<>> /\ Head(s) \in Whitespace THEN lstrip(Tail(s)) ELSE s
RECURSIVE rstrip(_)
rstrip(s) ==
  IF s # <<>> /\ s[Len(s)] \in Whitespace
    THEN rstrip(SubSeq(s, 1, Len(s) - 1)) ELSE s
strip(s) == rstrip(lstrip(s))

(***************************************************************************)
(* EmailValidator.is_valid_email: re.match of                              *)
(*   ^[a-zA-Z0-9._%+-]+@[a-zA-Z0-9.-]+\.[a-zA-Z]{2,}$                      *)
(***************************************************************************)
LocalChars ==
  Letters \cup Digits \cup { Code("."), Code("_"), Code("%"), Code("+"),
                             Code("-") }
DomainChars == Letters \cup Digits \cup { Code("."), Code("-") }
\* the least number of letters of the final label, {2,}
MinTld == 2
AllIn(s, lo, hi, S) == \A k \in lo..hi : s[k] \in S
\* the pattern without its anchors matches the whole of s
FullMatch(s) ==
  \E i \in 2..Len(s) :
    /\ s[i] = Code("@")
    /\ AllIn(s, 1, i - 1, LocalChars)
    /\ \E j \in (i + 2)..Len(s) :
         /\ s[j] = Code(".")
         /\ AllIn(s, i + 1, j - 1, DomainChars)
         /\ Len(s) - j >= MinTld
         /\ AllIn(s, j + 1, Len(s), Letters)
\* `$` also matches just before a final newline
is_valid_email(email) ==
  \/ FullMatch(email)
  \/ /\ email # <<>>
     /\ email[Len(email)] = Newline
     /\ FullMatch(SubSeq(email, 1, Len(email) - 1))

(***************************************************************************)
(* EmailAutomation.read_csv_content.  The CSV is given as csv.DictReader   *)
(* sees it: fieldnames (None, written NoFieldnames, for an empty file) and  *)
(* the data rows.                                                          *)
(***************************************************************************)
\* reader.fieldnames of an empty file: None. A file that starts with a
\* blank line has the empty header row <<>> instead.
NoFieldnames == << None >>
\* a field the csv module refuses to read (it is longer than the module's
\* field size limit): reading the row that holds it raises csv.Error
Oversized == << -2 >>
Unreadable(row) == \E j \in 1..Len(row) : row[j] = Oversized
\* the literal 'email' of the column test
EmailWord == Text(<<"e","m","a","i","l">>)
\* the search without its `break`: the last header that matches is kept
EmailColumnIndexLast(fieldnames) ==
  LET hits == { j \in 1..Len(fieldnames) :
                  Contains(EmailWord, lower(fieldnames[j])) }
  IN  IF hits = {} THEN 0
      ELSE CHOOSE j \in hits : \A k \in hits : k <= j
\* the index of the first header that contains 'email', 0 when there is none
EmailColumnIndex(fieldnames) ==
  LET hits == { j \in 1..Len(fieldnames) :
                  Contains(EmailWord, lower(fieldnames[j])) }
  IN  IF hits = {} THEN 0
      ELSE CHOOSE j \in hits : \A k \in hits : j <= k
\* row[email_column] of the dict DictReader builds: the last column of that
\* name decides, and a column the row does not reach holds None
RowValue(fieldnames, row, column) ==
  LET same == { j \in 1..Len(fieldnames) : fieldnames[j] = column }
      last == CHOOSE j \in same : \A k \in same : k <= j
  IN  IF last <= Len(row) THEN row[last] ELSE None
\* the loop with each valid address inserted at the front of the list
RECURSIVE ValidateRowsPrepending(_, _, _, _)
ValidateRowsPrepending(fieldnames, rows, column, k) ==
  IF k > Len(rows)
    THEN [exc |-> "none", emails |-> <<>>, warnings |-> <<>>]
  ELSE IF Unreadable(rows[k])
    THEN [exc |-> "Error", emails |-> <<>>, warnings |-> <<>>]
  ELSE IF rows[k] = <<>>
    THEN ValidateRowsPrepending(fieldnames, rows, column, k + 1)
  ELSE IF RowValue(fieldnames, rows[k], column) = None
    THEN [exc |-> "AttributeError", emails |-> <<>>, warnings |-> <<>>]
  ELSE IF is_valid_email(strip(RowValue(fieldnames, rows[k], column)))
    THEN [ValidateRowsPrepending(fieldnames, rows, column, k + 1) EXCEPT
            !.emails = @ \o << strip(RowValue(fieldnames, rows[k], column)) >>]
  ELSE [ValidateRowsPrepending(fieldnames, rows, column, k + 1) EXCEPT
            !.warnings = << k >> \o @]
\* the loop over the rows from row k on: the exception that ends it ("none"
\* when it runs to the end), the addresses appended and the rows warned about
RECURSIVE ValidateRows(_, _, _, _)
ValidateRows(fieldnames, rows, column, k) ==
  IF k > Len(rows)
    THEN [exc |-> "none", emails |-> <<>>, warnings |-> <<>>]
  ELSE IF Unreadable(rows[k])            \* line 80: the reader raises
    THEN [exc |-> "Error", emails |-> <<>>, warnings |-> <<>>]
  ELSE IF rows[k] = <<>>                 \* DictReader skips a blank line
    THEN ValidateRows(fieldnames, rows, column, k + 1)
  ELSE IF RowValue(fieldnames, rows[k], column) = None
    THEN \* None.strip()
         [exc |-> "AttributeError", emails |-> <<>>, warnings |-> <<>>]
  ELSE IF is_valid_email(strip(RowValue(fieldnames, rows[k], column)))
    THEN [ValidateRows(fieldnames, rows, column, k + 1) EXCEPT
            !.emails = << strip(RowValue(fieldnames, rows[k], column)) >> \o @]
  ELSE [ValidateRows(fieldnames, rows, column, k + 1) EXCEPT
            !.warnings = << k >> \o @]
\* the result of read_csv_content: the exception it raises ("none" when it
\* returns), the list it returns and the rows it warned about
read_csv_content(content, fieldnames, rows) ==
  LET empty == [exc |-> "none", emails |-> <<>>, warnings |-> <<>>] IN
  IF content = "not_utf8"                    \* line 63: decode('utf-8')
    THEN [empty EXCEPT !.exc = "UnicodeDecodeError"]
  ELSE IF fieldnames = NoFieldnames THEN [empty EXCEPT !.exc = "TypeError"]
  ELSE IF Unreadable(fieldnames)             \* line 71 reads the header
    THEN [empty EXCEPT !.exc = "Error"]
  ELSE IF EmailColumnIndex(fieldnames) = 0
    THEN [empty EXCEPT !.exc = "ValueError"]
  ELSE \* email_column is found once, before the loop over the rows
       CHOOSE result \in
         { IF r.exc = "none" THEN r ELSE [r EXCEPT !.emails = <<>>] :
             r \in { ValidateRows(fieldnames, rows, email_column, 1) :
                       email_column \in
                         { fieldnames[EmailColumnIndex(fieldnames)] } } } : TRUE

(***************************************************************************)
(* The inputs of a campaign: what the form holds when Send is pressed.     *)
(***************************************************************************)
Name == Text(<<"N","a","m","e">>)
EmailAddress == Text(<<"E","m","a","i","l"," ","A","d","d","r","e","s","s">>)
Phone == Text(<<"P","h","o","n","e">>)
EmailCaps == Text(<<"E","M","A","I","L">>)
Bob == Text(<<"b","o","b">>)
AddrA == Text(<<"a","@","x",".","c","o">>)
AddrB == Text(<<"b","@","y",".","o","r","g">>)
Tab == 9
OghamSpaceMark == 5760
\* "\u1680 b@y.org\t"
PaddedB ==
  << OghamSpaceMark >> \o Text(<<" ","b","@","y",".","o","r","g">>) \o << Tab >>
BadAddr == Text(<<"b","a","d","@","x">>)
\* the headers of the uploaded file
FieldnameChoices == { <<Name, EmailAddress>>, <<EmailCaps, EmailAddress>>,
                      <<Name, Phone>>, <<Name, Oversized>>, <<>>,
                      NoFieldnames }
\* the bytes of the uploaded file: UTF-8 text, or bytes that are not UTF-8
ContentKinds == { "text", "not_utf8" }
\* the data rows: valid, padded, malformed, empty cell, row without the
\* email cell, blank line
RowChoices == { <<Bob, AddrA>>, <<Bob, PaddedB>>, <<Bob, BadAddr>>,
                <<Bob, <<>> >>, <<Bob>>, <<Bob, Oversized>>, <<>> }
RECURSIVE SeqsUpTo(_, _)
SeqsUpTo(S, n) ==
  IF n = 0 THEN { <<>> }
  ELSE LET shorter == SeqsUpTo(S, n - 1)
       IN  shorter \cup { Append(q, x) : q \in shorter, x \in S }

(***************************************************************************)
(* State.                                                                  *)
(***************************************************************************)
VARIABLES
  uploaded,     \* main: csv_file is truthy
  content,      \* what kind of bytes the uploaded file holds
  filled,       \* main: subject and content are both non-empty
  fieldnames,   \* the header of the uploaded file
  rows,         \* its data rows
  pc,           \* the position of main
  automation,   \* main: the local `automation` is bound
  smtp_server,  \* EmailAutomation.smtp_server: "None" or "SMTP"
  emails,       \* the list read_csv_content returned
  idx,          \* send_emails: the loop index (0-based, as in the code)
  retries,      \* send_emails: attempts left for emails[idx]
  builds,       \* create_message calls, per position of emails
  sends,        \* smtp_server.send_message calls, per position
  accepted,     \* send_message calls that returned, per position
  outcome,      \* per position: "Pending", "Sent" or "Failed"
  progress,     \* the fractions given to the progress bar, as <<num, den>>
  completed,    \* times "Email campaign completed!" was shown
  errors,       \* st.error calls
  warnings,     \* rows read_csv_content warned about
  quits,        \* smtp_server.quit calls
  setups,       \* the setup_smtp calls made, as the way each ended
  last_result,  \* how the latest pass of the try block ended, or "none"
  pause,        \* the seconds the latest pass slept (0: it did not sleep)
  exc,          \* the exception main's handler caught, or "none"
  raising,      \* the exception raised inside main's handler, or "none"
  escaped       \* the exception that left main, or "none"

vars == << uploaded, content, filled, fieldnames, rows, pc, automation, smtp_server,
           emails, idx, retries, builds, sends, accepted, outcome, progress,
           completed, errors, warnings, quits, setups, last_result, pause, exc,
           raising, escaped >>
inputs == << uploaded, content, filled, fieldnames, rows >>
sendState == << idx, retries, builds, sends, accepted, outcome, progress,
                completed, last_result, pause >>

Init ==
  /\ uploaded \in BOOLEAN
  /\ content \in ContentKinds
  /\ filled \in BOOLEAN
  /\ fieldnames \in FieldnameChoices
  /\ rows \in SeqsUpTo(RowChoices, MaxRows)
  \* without a file there is no content to choose, and bytes that cannot be
  \* decoded have no table
  /\ ~uploaded => (content = "text" /\ fieldnames = NoFieldnames)
  /\ content # "text" => fieldnames = NoFieldnames
  /\ fieldnames = NoFieldnames => rows = <<>>
  /\ pc = "button"
  /\ automation = FALSE
  /\ smtp_server = "None"
  /\ emails = <<>>
  /\ idx = 0
  /\ retries = 0
  /\ builds = <<>>
  /\ sends = <<>>
  /\ accepted = <<>>
  /\ outcome = <<>>
  /\ progress = <<>>
  /\ completed = 0
  /\ errors = 0
  /\ warnings = <<>>
  /\ quits = 0
  /\ setups = <<>>
  /\ last_result = "none"
  /\ pause = 0
  /\ exc = "none"
  /\ raising = "none"
  /\ escaped = "none"

(***************************************************************************)
(* main, lines 185-205: the validation returns, the construction of the    *)
(* EmailAutomation object and the extraction of the recipients.            *)
(***************************************************************************)
\* lines 187-195
\* `ui` is the outcome of the st.error call of a validation return, `ctor`
\* that of EmailAutomation(), whose _setup_logging creates the log file
CtorResults == { "ok", "raise" }
Validate(ui, ctor) ==
  /\ pc = "button"
  /\ IF ~uploaded \/ ~filled
       THEN /\ ctor = "ok"
            /\ IF ui = "raise"
                 THEN /\ exc' = "UiError"
                      /\ pc' = "except"
                      /\ UNCHANGED errors
                 ELSE /\ errors' = errors + 1     \* st.error(...); return
                      /\ pc' = "finally"
                      /\ UNCHANGED exc
            /\ UNCHANGED automation
       ELSE /\ ui = "ok"
            /\ IF ctor = "raise"
                 THEN /\ exc' = "NotADirectoryError"
                      /\ pc' = "except"
                      /\ UNCHANGED automation
                 ELSE /\ automation' = TRUE
                      /\ pc' = "read_csv"
                      /\ UNCHANGED exc
            /\ UNCHANGED errors
  /\ UNCHANGED << inputs, smtp_server, emails, sendState, warnings, quits,
                  setups, raising, escaped >>

\* lines 198-211
\* a test for a missing list only: an empty list passes it
NoEmailsIsNone(list) == FALSE
\* line 201, `not emails`: the list is empty
NoEmails(list) == list = <<>>
\* `ui` is the outcome of the calls that follow the extraction: st.error
\* of line 202, or st.info and the attachment reads of lines 205-211
ReadCsv(ui) ==
  /\ pc = "read_csv"
  /\ \E r \in { read_csv_content(content, fieldnames, rows) } :
       /\ warnings' = r.warnings
       /\ IF r.exc # "none"
            THEN /\ ui = "ok"
                 /\ exc' = r.exc
                 /\ pc' = "except"
                 /\ UNCHANGED << emails, errors >>
          ELSE IF NoEmails(r.emails)          \* if not emails: ... return
            THEN /\ IF ui = "raise"
                      THEN /\ exc' = "UiError"
                           /\ pc' = "except"
                           /\ UNCHANGED errors
                      ELSE /\ errors' = errors + 1
                           /\ pc' = "finally"
                           /\ UNCHANGED exc
                 /\ UNCHANGED emails
          ELSE /\ emails' = r.emails
               /\ IF ui = "raise"
                    THEN exc' = "UiError" /\ pc' = "except"
                    ELSE pc' = "setup_smtp" /\ UNCHANGED exc
               /\ UNCHANGED errors
       \* the per-recipient records start with the list
       /\ builds' = [i \in 1..Len(r.emails) |-> 0]
       /\ sends' = [i \in 1..Len(r.emails) |-> 0]
       /\ accepted' = [i \in 1..Len(r.emails) |-> 0]
       /\ outcome' = [i \in 1..Len(r.emails) |-> "Pending"]
  /\ UNCHANGED << inputs, automation, smtp_server, idx, retries, progress,
                  completed, last_result, pause, quits, setups,
                  raising, escaped >>

(***************************************************************************)
(* EmailAutomation.setup_smtp, lines 94-104: connect, STARTTLS, login.     *)
(***************************************************************************)
SetupResults == { "ok", "connect", "starttls", "login" }
\* the attribute assigned only once the login has succeeded
ServerAfterLogin(result) == IF result = "ok" THEN "SMTP" ELSE "None"
\* smtp_server after a setup that ended with `result`: the attribute is
\* assigned as soon as smtplib.SMTP(...) returns
ServerAfterSetup(result) == IF result = "connect" THEN "None" ELSE "SMTP"
\* a handler that logs the failure and does not re-raise it
AfterSetupSwallowed(result) == "send_emails"
\* where main goes after setup_smtp: the handler re-raises every failure
AfterSetup(result) == IF result = "ok" THEN "send_emails" ELSE "except"
SetupSmtp(result) ==
  /\ pc = "setup_smtp"
  /\ smtp_server' = ServerAfterSetup(result)
  /\ pc' = AfterSetup(result)
  /\ setups' = Append(setups, result)
  /\ exc' = IF AfterSetup(result) = "except" THEN "SMTPException" ELSE exc
  /\ UNCHANGED << inputs, automation, emails, sendState, errors, warnings,
                  quits, raising, escaped >>

(***************************************************************************)
(* EmailAutomation.send_emails, lines 131-161.                             *)
(***************************************************************************)
\* line 139: the attempts a recipient starts with
Retries == 3
\* a loop test that is off by one: it lets a recipient in with none left
MayRetryAtZero(r) == r >= 0
\* lines 140 and 153: another attempt is made while retries > 0
MayRetry(r) == r > 0
\* line 151
RetriesLeft(r) == r - 1
\* the fraction computed from the 0-based index itself
ProgressValueFromIndex(i, n) == << i, n >>
\* the fraction of the recipients still to come
ProgressValueRemaining(i, n) == << n - i, n >>
\* the fraction with the index advanced twice
ProgressValuePastEnd(i, n) == << i + 2, n >>
\* line 147: the fraction given to the progress bar, (idx + 1) / len(emails)
ProgressValue(i, n) == << i + 1, n >>
\* a status or progress call of the user interface returns or raises
UiResults == { "ok", "raise" }
\* one pass of the try block, lines 142-149: create_message raises, or
\* send_message raises, or a call of lines 144-147 raises, or the pass
\* reaches `break`
AttemptResults == { "build_error", "send_error", "report_error", "sent" }

\* lines 134-139: the progress bar starts at 0 and the loop at the first
\* recipient; st.progress(0) of line 135 or st.empty() of line 136 may raise
SendBeginResults == { "ok", "progress_raises", "empty_raises" }
SendBegin(ui) ==
  /\ pc = "send_emails"
  /\ IF ui = "progress_raises"
       THEN /\ exc' = "UiError"
            /\ pc' = "except"
            /\ UNCHANGED << idx, retries, progress >>
     ELSE IF ui = "empty_raises"
       THEN /\ progress' = << << 0, Len(emails) >> >>
            /\ exc' = "UiError"
            /\ pc' = "except"
            /\ UNCHANGED << idx, retries >>
       ELSE /\ progress' = << << 0, Len(emails) >> >>
            /\ idx' = 0
            /\ retries' = Retries
            /\ pc' = "attempt"
            /\ UNCHANGED exc
  /\ UNCHANGED << inputs, automation, smtp_server, emails, builds, sends,
                  accepted, outcome, completed, last_result, pause, errors,
                  warnings, quits, setups, raising, escaped >>

\* a second round over the list: after the last recipient the loop goes back
\* to the first one when it had been given up
AdvanceRevisiting(r) ==
  IF idx + 1 < Len(emails)
    THEN idx' = idx + 1 /\ retries' = Retries /\ pc' = "attempt"
  ELSE IF Len(emails) > 1 /\ outcome[1] = "Failed"
    THEN idx' = 0 /\ retries' = Retries /\ pc' = "attempt"
  ELSE idx' = idx + 1 /\ retries' = r /\ pc' = "completed_status"
\* the completion status reached as soon as one recipient is resolved
AdvanceToEnd(r) ==
  /\ idx' = idx + 1
  /\ retries' = r
  /\ pc' = "completed_status"
\* the for loop moves on from position idx: the next recipient starts with
\* a fresh budget, and after the last one the loop ends
\* the budget set once before the for loop: the next recipient inherits
\* what the previous one left
NextRetriesCarried(r) == r
NextRetries(r) == Retries
Advance(r) ==
  /\ idx' = idx + 1
  /\ IF idx + 1 < Len(emails)
       THEN retries' = NextRetries(r) /\ pc' = "attempt"
       ELSE retries' = r /\ pc' = "completed_status"

\* an exhausted budget that records nothing for the recipient
OutcomeNeverFailed(result, r) == IF result = "sent" THEN "Sent" ELSE "Pending"
\* the outcome decided by the attempts left alone, as when the decrement is
\* made before the pass and tested after the loop
OutcomeByBudget(result, r) ==
  IF MayRetry(RetriesLeft(r))
    THEN (IF result = "sent" THEN "Sent" ELSE "Pending")
    ELSE "Failed"
\* lines 144-159: what a pass of the try block that ended with `result`,
\* made with r attempts left, records for the recipient
OutcomeOf(result, r) ==
  IF result = "sent" THEN "Sent"
  ELSE IF MayRetry(RetriesLeft(r)) THEN "Pending"
  ELSE "Failed"

\* the send made whatever create_message did
SendCalledAlways(result) == TRUE
\* line 143 is reached only when create_message (line 142) returned
SendCalled(result) == result # "build_error"
PacingPause == 1
BackoffPause == 2
\* a pause that doubles with every failed attempt of the recipient
BackoffGrowing(r) == BackoffPause * (Retries - r)
\* line 156: the pause before the next attempt, r attempts being left
Backoff(r) == BackoffPause
\* lines 140-159: one iteration of the while loop for emails[idx];
\* `handler` is the outcome of the status calls of the except block
Attempt(result, handler) ==
  /\ pc = "attempt"
  /\ idx < Len(emails)
  /\ MayRetry(retries)
  /\ result = "sent" => handler = "ok"
  /\ last_result' = result
  /\ builds' = [builds EXCEPT ![idx + 1] = @ + 1]
  /\ sends' = IF SendCalled(result)
                THEN [sends EXCEPT ![idx + 1] = @ + 1]
                ELSE sends
  /\ accepted' = IF result \in { "report_error", "sent" }
                   THEN [accepted EXCEPT ![idx + 1] = @ + 1]
                   ELSE accepted
  /\ IF result = "sent"
       THEN \* lines 144-149
            /\ progress' = Append(progress, ProgressValue(idx, Len(emails)))
            /\ pause' = PacingPause                       \* line 148
            /\ outcome' = [outcome EXCEPT ![idx + 1] = OutcomeOf(result, retries)]
            /\ Advance(retries)
            /\ UNCHANGED exc
       ELSE \* lines 150-159
            /\ UNCHANGED progress
            /\ IF handler = "raise"
                 THEN /\ retries' = RetriesLeft(retries)
                      /\ pause' = 0
                      /\ exc' = "UiError"
                      /\ pc' = "except"
                      /\ UNCHANGED << idx, outcome >>
               ELSE IF MayRetry(RetriesLeft(retries))
                 THEN /\ retries' = RetriesLeft(retries)
                      /\ pause' = Backoff(RetriesLeft(retries))  \* line 156
                      /\ UNCHANGED << idx, outcome, pc, exc >>
               ELSE /\ outcome' = [outcome EXCEPT
                                     ![idx + 1] = OutcomeOf(result, retries)]
                    /\ Advance(RetriesLeft(retries))
                    /\ pause' = 0
                    /\ UNCHANGED exc
  /\ UNCHANGED << inputs, automation, smtp_server, emails, completed, errors,
                  warnings, quits, setups, raising, escaped >>

\* line 161
CompletedStatus(ui) ==
  /\ pc = "completed_status"
  /\ IF ui = "raise"
       THEN /\ exc' = "UiError"
            /\ pc' = "except"
            /\ UNCHANGED completed
       ELSE /\ completed' = completed + 1
            /\ pc' = "success"
            /\ UNCHANGED exc
  /\ UNCHANGED << inputs, automation, smtp_server, emails, idx, retries,
                  builds, sends, accepted, outcome, progress, last_result,
                  pause,
                  errors, warnings, quits, setups, raising, escaped >>

(***************************************************************************)
(* main, lines 219-226: the success message, the handler and the cleanup.  *)
(***************************************************************************)
\* line 219: st.success is inside the try block
Success(ui) ==
  /\ pc = "success"
  /\ IF ui = "raise"
       THEN exc' = "UiError" /\ pc' = "except"
       ELSE pc' = "finally" /\ UNCHANGED exc
  /\ UNCHANGED << inputs, automation, smtp_server, emails, sendState, errors,
                  warnings, quits, setups, raising, escaped >>

\* lines 221-223: when st.error of line 222 raises, the exception leaves the
\* handler and goes through the finally block
Except(ui) ==
  /\ pc = "except"
  /\ IF ui = "raise"
       THEN raising' = "UiError" /\ UNCHANGED errors
       ELSE errors' = errors + 1 /\ UNCHANGED raising
  /\ pc' = "finally"
  /\ UNCHANGED << inputs, automation, smtp_server, emails, sendState,
                  warnings, quits, setups, exc, escaped >>

\* line 225: the test of the finally block decides whether quit is called
QuitsAtEnd(server) == IF server # "None" THEN 1 ELSE 0
\* smtplib's quit() returns, or raises SMTPServerDisconnected when the
\* connection is gone
QuitResults == { "ok", "raise" }
\* lines 224-226: reading `automation` fails when it was never bound; an
\* exception raised in the block replaces the one that was passing through
Finally(q) ==
  /\ pc = "finally"
  /\ IF ~automation
       THEN /\ q = "ok"
            /\ escaped' = "UnboundLocalError"
            /\ UNCHANGED quits
       ELSE /\ quits' = quits + QuitsAtEnd(smtp_server)
            /\ q = "raise" => QuitsAtEnd(smtp_server) = 1
            /\ escaped' = IF q = "raise" THEN "SMTPServerDisconnected"
                           ELSE raising
  /\ pc' = "done"
  /\ UNCHANGED << inputs, automation, smtp_server, emails, sendState, errors,
                  warnings, setups, exc, raising >>

Next ==
  \/ \E ui \in UiResults, ctor \in CtorResults : Validate(ui, ctor)
  \/ \E ui \in UiResults : ReadCsv(ui)
  \/ \E result \in SetupResults : SetupSmtp(result)
  \/ \E ui \in SendBeginResults : SendBegin(ui)
  \/ \E result \in AttemptResults, handler \in UiResults :
       Attempt(result, handler)
  \/ \E ui \in UiResults : CompletedStatus(ui)
  \/ \E ui \in UiResults : Success(ui)
  \/ \E ui \in UiResults : Except(ui)
  \/ \E q \in QuitResults : Finally(q)

Spec == Init /\ [][Next]_vars
\* main is sequential code that waits for nothing: while a step of it can
\* be taken, one is taken
FairSpec == Spec /\ WF_vars(Next)

(***************************************************************************)
(* Properties.                                                             *)
(***************************************************************************)
Positions == 1..Len(emails)
\* the recipients the for loop has left behind
Finished == { i \in Positions : i <= idx }
SetupFailures == { "connect", "starttls", "login" }

\* C1: a recipient never gets more than 3 build+send attempts, whatever
\* fails; a recipient is recorded as failed only after exactly 3 attempts,
\* and a recipient the loop has left without a success has had exactly 3
\* attempts and is recorded as failed.
AttemptsBudget ==
  \A i \in Positions :
    /\ builds[i] <= 3
    /\ sends[i] <= builds[i]
    /\ outcome[i] = "Failed" => builds[i] = 3
    /\ (i \in Finished /\ outcome[i] # "Sent") =>
         (outcome[i] = "Failed" /\ builds[i] = 3)
\* a recipient whose three attempts all failed before the transport accepted
\* anything
ExhaustedRecipient ==
  \E i \in Positions :
    outcome[i] = "Failed" /\ builds[i] = 3 /\ accepted[i] = 0

\* C2: the step that records a recipient as failed raises nothing and does
\* not end the loop early: it moves to the next recipient, which starts with
\* 3 attempts and none used, or past the last one to the completion status;
\* and when send_emails has shown its completion status every recipient has
\* been attempted, whatever happened to the earlier ones.
FailureIsolation ==
  /\ [][ (\E i \in Positions : outcome[i] # "Failed" /\ outcome'[i] = "Failed")
           => /\ exc' = exc
              /\ idx' = idx + 1
              /\ IF idx' < Len(emails)
                   THEN pc' = "attempt" /\ retries' = 3 /\ builds'[idx' + 1] = 0
                   ELSE pc' = "completed_status" ]_vars
  /\ [](pc = "attempt" => retries + builds[idx + 1] = 3)
  /\ [](completed > 0 => \A i \in Positions : builds[i] >= 1)
\* the first recipient failed and the second still used a full budget
AttemptedAfterFailure ==
  /\ Len(emails) >= 2
  /\ outcome[1] = "Failed"
  /\ builds[2] = 3

\* C3 (as stated): at the end of a campaign quit has been called exactly
\* once if setup_smtp succeeded, and not at all if it never succeeded.
QuitOnlyAfterSuccessfulOpen ==
  pc = "done" =>
    quits = IF setups = << "ok" >> THEN 1 ELSE 0
\* C3 (amended): quit is called in the cleanup only, exactly once on every
\* exit path on which the connection had been made: normal completion,
\* completion with failed recipients, an unexpected exception that ends the
\* work early, and a setup that failed at STARTTLS or at login; when the
\* connection was never made, quit is not called.
QuitOncePerConnection ==
  /\ pc # "done" => quits = 0
  /\ pc = "done" =>
       quits = IF setups # <<>> /\ setups[1] # "connect" THEN 1 ELSE 0
\* a campaign that ended after a failed STARTTLS or login, the session closed
HalfOpenSessionClosed ==
  /\ pc = "done"
  /\ setups # <<>>
  /\ setups[1] \in { "starttls", "login" }
  /\ quits = 1

(***************************************************************************)
(* Progress fractions are kept as << numerator, denominator >>.            *)
(***************************************************************************)
FracEq(a, b) == a[1] * b[2] = b[1] * a[2]
FracLeq(a, b) == a[1] * b[2] <= b[1] * a[2]
IsOne(a) == a[1] = a[2]
SentPositions == { i \in Positions : outcome[i] = "Sent" }
\* the position of the k-th recipient sent
KthSent(k) ==
  CHOOSE i \in SentPositions :
    Cardinality({ j \in SentPositions : j <= i }) = k
LastProgress == progress[Len(progress)]

\* C4 (as stated): the fraction emitted after a successful send, which is
\* the last one emitted until the next send succeeds, equals the number of
\* recipients sent so far over the number of recipients.
ProgressIsSuccessFraction ==
  Len(progress) >= 2 =>
    FracEq(LastProgress, << Cardinality(SentPositions), Len(emails) >>)
\* C4 (amended): one fraction is emitted per successful send, and the
\* fraction emitted for a recipient equals its 1-based position in the list
\* over the number of recipients, whatever failed before; the last value
\* emitted is the position of the last recipient sent over the total.
ProgressIsPositionFraction ==
  progress # <<>> =>
    /\ Len(progress) = 1 + Cardinality(SentPositions)
    /\ progress[1] = << 0, Len(emails) >>
    /\ \A k \in 1..Cardinality(SentPositions) :
         FracEq(progress[k + 1], << KthSent(k), Len(emails) >>)
\* the first of two recipients failed, the second was sent and the bar shows
\* 2/2
FullBarAfterFailure ==
  /\ outcome = << "Failed", "Sent" >>
  /\ progress = << << 0, 2 >>, << 2, 2 >> >>

\* C5 (as stated): when a recipient has ended as Failed, no emitted
\* progress value equals 1.0.
NoFullBarWithFailure ==
  (\E i \in Positions : outcome[i] = "Failed") =>
    \A k \in 1..Len(progress) : ~IsOne(progress[k])
\* C5 (amended): a progress value of 1.0 has been emitted exactly when the
\* last recipient of the list has been sent, whatever the outcome of the
\* earlier recipients; and the step that records a recipient as Failed emits
\* no progress value.
FullBarIffLastSent ==
  /\ []( (\E k \in 1..Len(progress) : IsOne(progress[k]))
           <=> (emails # <<>> /\ outcome[Len(emails)] = "Sent") )
  /\ [][ (\E i \in Positions : outcome[i] # "Failed" /\ outcome'[i] = "Failed")
           => progress' = progress ]_vars
\* a finished campaign whose first recipient failed and whose last was sent
FailedThenLastSent ==
  /\ pc = "done"
  /\ Len(emails) = 2
  /\ outcome[1] = "Failed"
  /\ outcome[2] = "Sent"
  /\ IsOne(LastProgress)

\* C6: every emitted progress fraction lies in [0, 1] and the sequence of
\* emitted fractions never decreases, for any list and any failures.
ProgressMonotone ==
  /\ \A k \in 1..Len(progress) :
       /\ progress[k][2] > 0
       /\ 0 <= progress[k][1]
       /\ progress[k][1] <= progress[k][2]
  /\ \A k \in 1..(Len(progress) - 1) : FracLeq(progress[k], progress[k + 1])
\* both recipients sent, the second after a failed attempt: three values
TwoSendsReported ==
  /\ Len(progress) = 3
  /\ builds[2] >= 2
  /\ outcome[2] = "Sent"

\* C7: when connect, STARTTLS or login fails, setup is not tried again, no
\* message is built or sent for any recipient, send_emails is never
\* entered, and the campaign reports one error, and only one (none when the
\* st.error call of main's handler itself raises).
SetupFailureIsFatal ==
  (setups # <<>> /\ setups[1] \in SetupFailures) =>
    /\ Len(setups) = 1
    /\ pc \in { "except", "finally", "done" }
    /\ \A i \in Positions : builds[i] = 0 /\ sends[i] = 0
    /\ progress = <<>>
    /\ completed = 0
    /\ errors = IF pc = "except" \/ raising # "none" THEN 0 ELSE 1
\* a campaign that ended on a failed login, with its one error reported
LoginFailureReported ==
  /\ pc = "done"
  /\ setups = << "login" >>
  /\ errors = 1

\* C8: when the third pass for a recipient succeeds after two failed ones,
\* the recipient is recorded as Sent, one progress value is emitted, the
\* loop leaves the recipient, and the recipients before it keep their
\* outcome and attempt counts; a recipient recorded as Sent is never
\* attempted again, so there is no 4th attempt.
RetryRecovery ==
  /\ [][ (pc = "attempt" /\ builds[idx + 1] = 2 /\ builds'[idx + 1] = 3
            /\ last_result' = "sent")
           => /\ outcome'[idx + 1] = "Sent"
              /\ Len(progress') = Len(progress) + 1
              /\ idx' = idx + 1
              /\ \A j \in 1..idx :
                   outcome'[j] = outcome[j] /\ builds'[j] = builds[j] ]_vars
  /\ [][ \A i \in Positions :
           outcome[i] = "Sent" =>
             (outcome'[i] = "Sent" /\ builds'[i] = builds[i]) ]_vars
  /\ [](\A i \in Positions : builds[i] <= 3)
\* the second recipient was sent on its third attempt, after the first
\* recipient had been sent on its first
RecoveredOnThirdAttempt ==
  /\ Len(emails) = 2
  /\ builds = << 1, 3 >>
  /\ outcome = << "Sent", "Sent" >>
  /\ accepted[2] = 1

Resolved == { "Sent", "Failed" }

\* C9: main, and with it send_emails, always runs to its end; the
\* "campaign completed" status is shown at most once and only when every
\* recipient is resolved as Sent or Failed; and it has been shown exactly
\* once whenever send_emails returned, which it does for every pattern of
\* build and send failures once it has started its loop, however many
\* recipients failed.
CampaignCompletes ==
  /\ <>(pc = "done")
  /\ [](completed <= 1)
  /\ [](completed = 1 => \A i \in Positions : outcome[i] \in Resolved)
  /\ [](pc = "success" => completed = 1)
  /\ []((pc = "done" /\ progress # <<>> /\ exc = "none") => completed = 1)
\* a finished campaign in which both recipients failed and the completion
\* status was shown
CompletedWithAllFailed ==
  /\ pc = "done"
  /\ outcome = << "Failed", "Failed" >>
  /\ completed = 1

\* the data rows DictReader yields whose email field is not a valid address:
\* malformed, empty, or absent
InvalidRows ==
  IF EmailColumnIndex(fieldnames) = 0 THEN {}
  ELSE { k \in 1..Len(rows) :
           /\ rows[k] # <<>>
           /\ LET cell == RowValue(fieldnames, rows[k],
                                   fieldnames[EmailColumnIndex(fieldnames)])
              IN  cell = None \/ ~is_valid_email(strip(cell)) }
ValidRows ==
  IF EmailColumnIndex(fieldnames) = 0 THEN {}
  ELSE { k \in 1..Len(rows) : rows[k] # <<>> /\ k \notin InvalidRows }
\* C10: once read_csv_content has run on a file that has an email column
\* and whose rows the csv module can all read, it has raised nothing, every row whose email field is malformed, empty or
\* absent has been skipped with a warning, and the valid rows around it have
\* all been extracted.
InvalidRowsSkipped ==
  (pc \notin { "button", "read_csv" } /\ automation
     /\ EmailColumnIndex(fieldnames) # 0
     /\ \A k \in 1..Len(rows) : ~Unreadable(rows[k])) =>
    /\ exc # "AttributeError"
    /\ Range(warnings) = InvalidRows
    /\ ValidRows # {} => Len(emails) = Cardinality(ValidRows)

(***************************************************************************)
(* Extraction, stated on the uploaded table itself.                        *)
(***************************************************************************)
\* the exceptions read_csv_content raises
ReadErrors == { "UnicodeDecodeError", "Error", "TypeError", "ValueError",
                "AttributeError" }
\* read_csv_content has been called
AfterRead == automation /\ pc \notin { "button", "read_csv" }
HasEmailHeader ==
  \E j \in 1..Len(fieldnames) : Contains(EmailWord, lower(fieldnames[j]))
\* the first column, in column order, whose header contains "email"
FirstEmailHeader ==
  CHOOSE j \in 1..Len(fieldnames) :
    /\ Contains(EmailWord, lower(fieldnames[j]))
    /\ \A k \in 1..(j - 1) : ~Contains(EmailWord, lower(fieldnames[k]))
\* the rows that are not blank lines
DataRows == SelectSeq(rows, LAMBDA r : r # <<>>)
\* the trimmed cells of that column, in row order
EmailCells == [k \in 1..Len(DataRows) |-> strip(DataRows[k][FirstEmailHeader])]

\* C11: when read_csv_content returns, the list it returns is the
\* subsequence of the trimmed cells of the email column that are valid
\* addresses, in row order, duplicates included and nothing else.
ExtractionIsFilter ==
  /\ [][(pc = "read_csv" /\ exc' \notin ReadErrors) =>
          emails' = SelectSeq(EmailCells, is_valid_email)]_vars
  /\ [][pc # "read_csv" => emails' = emails]_vars
\* a padded address and a plain one, extracted trimmed and in row order
TrimmedInRowOrder ==
  /\ rows = << <<Bob, PaddedB>>, <<Bob, AddrA>> >>
  /\ emails = << AddrB, AddrA >>

\* C12: in a file whose header row the csv module reads, the email column is
\* the first column whose header contains "email" in any case: the addresses
\* extracted and the rows warned about are those of that column; when no
\* header contains it, ValueError (no email column) is raised, whatever the
\* rows below the header hold; and after any error of
\* read_csv_content the campaign ends with one error reported (none when
\* the st.error call of main's handler itself raises), setup_smtp never
\* called and nothing built or sent.
FirstEmailColumnOrAbort ==
  /\ [][pc = "read_csv" =>
          /\ (/\ fieldnames # NoFieldnames
              /\ ~Unreadable(fieldnames)
              /\ ~HasEmailHeader) =>
               exc' = "ValueError"
          /\ (HasEmailHeader /\ exc' \notin ReadErrors) =>
               /\ emails' = SelectSeq(EmailCells, is_valid_email)
               /\ Range(warnings') =
                    { k \in 1..Len(rows) :
                        /\ rows[k] # <<>>
                        /\ ~is_valid_email(strip(rows[k][FirstEmailHeader])) }
     ]_vars
  /\ []((AfterRead /\ exc \in ReadErrors) =>
          /\ pc \in { "except", "finally", "done" }
          /\ setups = <<>>
          /\ smtp_server = "None"
          /\ emails = <<>>
          /\ progress = <<>>
          /\ quits = 0
          /\ errors = IF pc = "except" \/ raising # "none" THEN 0 ELSE 1)
\* a file whose two headers both contain "email": the first column, which
\* holds no address, was the one read
FirstOfTwoEmailColumns ==
  /\ fieldnames = << EmailCaps, EmailAddress >>
  /\ rows = << <<Bob, AddrA>> >>
  /\ warnings = << 1 >>
  /\ pc = "done"
\* a file without an email column: the campaign ended on the ValueError
NoEmailColumnAbort ==
  /\ fieldnames = << Name, Phone >>
  /\ exc = "ValueError"
  /\ pc = "done"

\* C13: when the file yields no valid address, the campaign ends on one
\* reported error (that of main's handler when the st.error call of line
\* 202 raises, none when that of the handler raises too) before the
\* transport is opened: setup_smtp,
\* create_message and send_message are never called, no progress value is
\* published and no completion is announced.
NoAddressesIsFatal ==
  /\ [][( /\ pc = "read_csv"
          /\ exc' \notin ReadErrors
          /\ SelectSeq(EmailCells, is_valid_email) = <<>> ) =>
            /\ emails' = <<>>
            /\ \/ errors' = errors + 1 /\ pc' = "finally" /\ exc' = exc
               \/ errors' = errors /\ pc' = "except" /\ exc' = "UiError"
       ]_vars
  /\ []((AfterRead /\ exc \notin ReadErrors /\ emails = <<>>) =>
          /\ pc \in { "except", "finally", "done" }
          /\ errors = IF pc = "except" \/ raising # "none" THEN 0 ELSE 1
          /\ setups = <<>>
          /\ smtp_server = "None"
          /\ \A i \in DOMAIN builds : builds[i] = 0 /\ sends[i] = 0
          /\ progress = <<>>
          /\ completed = 0
          /\ quits = 0)
\* a file whose only address is malformed: the campaign is over
OnlyInvalidAddresses ==
  /\ fieldnames = << Name, EmailAddress >>
  /\ rows = << <<Bob, BadAddr>> >>
  /\ warnings = << 1 >>
  /\ errors = 1
  /\ pc = "done"

\* C14: a position leaves Pending only through an attempt on it, to Sent
\* when that attempt succeeds and to Failed only when it is the third
\* failed one; a failed attempt with budget left keeps it Pending for the
\* retry; a resolved position is never attempted or changed again; and when
\* completion is announced every position is either Sent or Failed.
OutcomeLifecycle ==
  /\ [](completed = 1 =>
          \A i \in Positions :
            /\ outcome[i] \in Resolved
            /\ outcome[i] = "Failed" => builds[i] = Retries
            /\ outcome[i] = "Sent" => builds[i] \in 1..Retries)
  /\ [][\A i \in Positions :
          /\ outcome[i] \in Resolved =>
               outcome'[i] = outcome[i] /\ builds'[i] = builds[i]
          /\ (outcome[i] = "Pending" /\ outcome'[i] # "Pending") =>
               /\ i = idx + 1
               /\ builds'[i] = builds[i] + 1
               /\ outcome'[i] = "Sent" <=> last_result' = "sent"
               /\ outcome'[i] = "Failed" => builds'[i] = Retries
          /\ (builds'[i] # builds[i] /\ outcome'[i] = "Pending") =>
               /\ last_result' # "sent"
               /\ idx' = idx
               /\ exc' = exc => (builds'[i] < Retries /\ pc' = "attempt")
       ]_vars
\* a completed campaign with one recipient sent and the other given up
SentAndFailedResolved ==
  /\ outcome = << "Sent", "Failed" >>
  /\ completed = 1
  /\ pc = "done"

\* C15: a failed attempt is followed by a pause of 2 seconds exactly when
\* attempts remain for the recipient (after the first and the second
\* failure, not after the third), and the next step is then another attempt
\* on the same recipient; a successful pass is followed by a pause of
\* 1 second before the loop moves on; the pause after a failure is the same
\* whatever the attempt number.
PausePolicy ==
  [][pc = "attempt" =>
       LET i == idx + 1 IN
         /\ last_result' = "sent" =>
              pause' = 1 /\ idx' = idx + 1 /\ outcome'[i] = "Sent"
         /\ (last_result' # "sent" /\ exc' = exc) =>
              IF builds'[i] < 3
                THEN /\ pause' = 2
                     /\ idx' = idx
                     /\ pc' = "attempt"
                     /\ outcome'[i] = "Pending"
                ELSE pause' = 0 /\ idx' = idx + 1
         /\ exc' # exc => pause' = 0
    ]_vars
\* the second recipient has just failed for the second time, after the
\* first was sent: the loop pauses 2 seconds before its third attempt
BackoffBeforeThirdAttempt ==
  /\ builds = << 1, 2 >>
  /\ outcome = << "Sent", "Pending" >>
  /\ pause = 2
  /\ retries = 1

\* C16: attempts follow the list order: a step attempts one recipient only,
\* the one at the loop's position, which is still Pending, and makes at most
\* one send; the position never moves back; and a recipient has been
\* attempted only when every recipient before it is resolved.
ListOrder ==
  /\ [](\A i, j \in Positions :
          (i < j /\ builds[j] > 0) => outcome[i] \in Resolved)
  /\ [][pc = "attempt" =>
          /\ idx' \in { idx, idx + 1 }
          /\ \A i \in Positions :
               (builds'[i] # builds[i] \/ sends'[i] # sends[i]) =>
                 /\ i = idx + 1
                 /\ outcome[i] = "Pending"
                 /\ builds'[i] = builds[i] + 1
                 /\ sends'[i] \in { sends[i], sends[i] + 1 }
     ]_vars
\* the second recipient is being attempted after the first was given up
SecondAfterFirstResolved ==
  /\ Len(emails) = 2
  /\ outcome = << "Failed", "Pending" >>
  /\ builds = << 3, 1 >>
  /\ idx = 1

\* C17: every send is preceded by a build of its own; an attempt whose
\* build raises calls no send, and it is handled as an attempt whose send
\* raises: one unit of the budget is consumed, then either the 2 second
\* pause and a retry of the same recipient or, the budget being exhausted,
\* Failed and the next recipient.
BuildFailureIsAttemptFailure ==
  /\ [](\A i \in DOMAIN builds : sends[i] <= builds[i])
  /\ [][(pc = "attempt" /\ last_result' \in { "build_error", "send_error" }) =>
          LET i == idx + 1 IN
            /\ builds'[i] = builds[i] + 1
            /\ sends'[i] = sends[i] + (IF last_result' = "build_error"
                                         THEN 0 ELSE 1)
            /\ accepted' = accepted
            /\ progress' = progress
            /\ exc' = exc =>
                 IF retries > 1
                   THEN /\ retries' = retries - 1
                        /\ pause' = 2
                        /\ idx' = idx
                        /\ outcome' = outcome
                        /\ pc' = "attempt"
                   ELSE /\ outcome'[i] = "Failed"
                        /\ idx' = idx + 1
                        /\ pause' = 0
     ]_vars
\* a recipient given up after three builds that raised: nothing was sent
ThreeBuildFailures ==
  /\ builds = << 3 >>
  /\ sends = << 0 >>
  /\ outcome = << "Failed" >>
  /\ last_result = "build_error"

\* C18: no recipient is delivered to twice: send_message returns at most
\* once per recipient, also when the logging, status or progress call that
\* follows the send raises.
NoDuplicateDelivery ==
  \A i \in DOMAIN accepted : accepted[i] <= 1

\* C19: once Send is pressed the cleanup of main ends without raising on
\* every exit path, the validation returns included, on which no session is
\* opened or closed and the validation error is the only message.
CleanupNeverRaises ==
  pc = "done" =>
    /\ escaped = "none"
    /\ ~automation => (setups = <<>> /\ quits = 0 /\ errors = 1)
====
